---------------------------- MODULE Spec2Model ----------------------------
(***************************************************************************)
(* A model of pydantic_claude_sonnet_capitalofitaly.py: the three pydantic *)
(* records (AgentMessage, AgentQuery, AgentResponse), the ClaudeAgent      *)
(* wrapper (__init__ and ask) and the entry point main().                  *)
(*                                                                         *)
(* Python values are records tagged with their type (field t).  A float is *)
(* kept in tenths (0.7 is F(7)), so the range check ge=0, le=1 is exact.   *)
(* pydantic validates when a record is CONSTRUCTED; the BaseModel classes  *)
(* of the source set no validate_assignment, so setattr on a field stores  *)
(* the value as it is, and setattr on a name that is not a field raises    *)
(* ValueError.                                                             *)
(***************************************************************************)
EXTENDS Integers, Sequences, FiniteSets, TLC

VARIABLES
    env,      \* os.environ.get("ANTHROPIC_API_KEY") (None when unset)
    ctorArg,  \* the api_key argument ClaudeAgent(...) was called with
    agent,    \* the ClaudeAgent object: state, api_key, client
    asks,     \* number of ask() invocations begun
    calls,    \* number of client.messages.create invocations made
    apc,      \* position inside ask(): idle, overrides, call, awaiting
    cur,      \* the ask() in progress: question, overrides, query, request
    last,     \* how the last finished ask() ended
    earlier,  \* the questions of the ask() calls before the current one
    mpc,      \* position inside main() ("off": main is not running)
    output,   \* the lines printed to standard output
    escaped,  \* TRUE when an exception left main()
    qin,      \* the keyword arguments of the last AgentQuery(...) call
    qres      \* its result: the record, or the ValidationError

vars == <<env, ctorArg, agent, asks, calls, apc, cur, last, earlier,
          mpc, output, escaped, qin, qres>>

---------------------------------------------------------------------------
(* Bounds of the model *)

MaxAsks == 2
MaxOverrides == 2
MaxSegments == 2

---------------------------------------------------------------------------
(* Python values *)

I(n) == [t |-> "int", i |-> n]
F(tenths) == [t |-> "float", tenths |-> tenths]
S(s) == [t |-> "str", s |-> s]
None == [t |-> "NoneType"]
L(items) == [t |-> "list", items |-> items]
D(d) == [t |-> "dict", d |-> d]

\* bool(x) for the values a credential can be: None and "" are falsy
Truthy(x) == x # None /\ x # S("")

\* (variant: `b or a`, the environment taking precedence)
PyOrSwapped(a, b) == IF Truthy(b) THEN b ELSE a

\* `a or b`
PyOr(a, b) == IF Truthy(a) THEN a ELSE b

\* a raised exception; str(e) is its message
Exc(cls, msg) == [t |-> "exception", cls |-> cls, msg |-> msg]
Str(e) == e.msg

Ok(v) == [ok |-> TRUE, v |-> v]
Err(e) == [ok |-> FALSE, e |-> e]

ValidationError(what) == Exc("ValidationError", what)

---------------------------------------------------------------------------
(* pydantic field validation, as run by a record's constructor *)

\* a `str` field
ValidateStr(x) == IF x.t = "str" THEN Ok(x) ELSE Err("string_type")

\* an `int` field (no constraint is declared on it)
ValidateInt(x) == IF x.t = "int" THEN Ok(x) ELSE Err("int_type")

\* a `float` field: an int is converted to the float of the same value
ValidateFloat(x) ==
    CASE x.t = "float" -> Ok(x)
      [] x.t = "int" -> Ok(F(10 * x.i))
      [] OTHER -> Err("float_type")

TemperatureGeTenths == 0
TemperatureLeTenths == 10

\* (variant: Field(ge=0, lt=1), the upper bound excluded)
ValidateTemperatureLt(x) ==
    LET r == ValidateFloat(x) IN
    IF ~r.ok THEN r
    ELSE IF r.v.tenths < TemperatureGeTenths THEN Err("greater_than_equal")
    ELSE IF r.v.tenths >= TemperatureLeTenths THEN Err("less_than")
    ELSE r

\* Field(ge=0, le=1) on a float
ValidateTemperature(x) ==
    LET r == ValidateFloat(x) IN
    IF ~r.ok THEN r
    ELSE IF r.v.tenths < TemperatureGeTenths THEN Err("greater_than_equal")
    ELSE IF r.v.tenths > TemperatureLeTenths THEN Err("less_than_equal")
    ELSE r

\* AgentMessage(**d): role and content are required strings
AgentMessageInit(d) ==
    IF "role" \notin DOMAIN d \/ "content" \notin DOMAIN d THEN Err("missing")
    ELSE IF ~ValidateStr(d.role).ok THEN Err("string_type")
    ELSE IF ~ValidateStr(d.content).ok THEN Err("string_type")
    ELSE Ok([t |-> "AgentMessage", role |-> d.role, content |-> d.content])

AgentMessage(role, content) ==
    AgentMessageInit([role |-> S(role), content |-> S(content)]).v

\* one item of a List[AgentMessage] field: an instance is kept, a dict is
\* validated into an instance
ValidateMessageItem(x) ==
    CASE x.t = "AgentMessage" -> Ok(x)
      [] x.t = "dict" -> AgentMessageInit(x.d)
      [] OTHER -> Err("model_type")

\* a List[AgentMessage] field
ValidateMessages(x) ==
    IF x.t # "list" THEN Err("list_type")
    ELSE IF \E k \in 1..Len(x.items) : ~ValidateMessageItem(x.items[k]).ok
    THEN Err("invalid_message")
    ELSE Ok(L([k \in 1..Len(x.items) |-> ValidateMessageItem(x.items[k]).v]))

DefaultModel == "claude-3-7-sonnet-20250219"
DefaultMaxTokens == 1000
DefaultTemperatureTenths == 7

FieldNames == {"messages", "model", "max_tokens", "temperature"}

\* the validator of a field of AgentQuery
ValidateField(name, x) ==
    CASE name = "messages" -> ValidateMessages(x)
      [] name = "model" -> ValidateStr(x)
      [] name = "max_tokens" -> ValidateInt(x)
      [] name = "temperature" -> ValidateTemperature(x)

\* the default of a field of AgentQuery
FieldDefault(name) ==
    CASE name = "messages" -> L(<<>>)
      [] name = "model" -> S(DefaultModel)
      [] name = "max_tokens" -> I(DefaultMaxTokens)
      [] name = "temperature" -> F(DefaultTemperatureTenths)

\* AgentQuery(**kw): each field given is validated, each field left out
\* takes its default; any invalid field fails the construction
AgentQueryInit(kw) ==
    IF \E n \in FieldNames \cap DOMAIN kw : ~ValidateField(n, kw[n]).ok
    THEN Err(ValidationError("AgentQuery"))
    ELSE Ok([t |-> "AgentQuery"] @@
            [n \in FieldNames |->
                IF n \in DOMAIN kw THEN ValidateField(n, kw[n]).v
                ELSE FieldDefault(n)])

---------------------------------------------------------------------------
(* Inputs of the constructions *)

Absent == [t |-> "absent"]

GoodDict == D([role |-> S("user"), content |-> S("hi")])
NoContentDict == D([role |-> S("user")])
NoneRoleDict == D([role |-> None, content |-> S("hi")])

TemperatureInputs ==
    {F(x) : x \in {-1, 0, 5, 10, 11, 20}} \cup {I(0), I(1), I(2)}
        \cup {None, S("hot"), Absent}
MaxTokensInputs ==
    {I(-5), I(0), I(1), I(DefaultMaxTokens), None, S("many"), Absent}
MessagesInputs ==
    {L(<<>>), L(<<AgentMessage("assistant", "hi")>>), L(<<GoodDict>>),
     L(<<NoContentDict>>), L(<<GoodDict, NoneRoleDict>>), None, Absent}
ModelInputs == {S("claude-3-haiku"), None, Absent}

\* the keyword arguments: the fields that are not Absent
Kwargs(m, mo, mt, te) ==
    LET all == [messages |-> m, model |-> mo, max_tokens |-> mt,
                temperature |-> te]
    IN [n \in {f \in FieldNames : all[f] # Absent} |-> all[n]]

---------------------------------------------------------------------------
(* ClaudeAgent.__init__ *)

MissingKeyMessage ==
    "ANTHROPIC_API_KEY must be provided either as an argument or as an environment variable"

\* anthropic.Anthropic(api_key=...): builds the handle, sends nothing
Anthropic(key) == [t |-> "Anthropic", api_key |-> key]

\* ClaudeAgent(api_key) with os.environ.get("ANTHROPIC_API_KEY") = environ
AgentInit(api_key, environ) ==
    LET key == PyOr(api_key, environ) IN
    IF ~Truthy(key) THEN Err(Exc("ValueError", MissingKeyMessage))
    ELSE Ok([t |-> "ClaudeAgent", api_key |-> key, client |-> Anthropic(key)])

NoAgent == [t |-> "none"]
FailedAgent(e) == [t |-> "failed", exc |-> e]

---------------------------------------------------------------------------
(* ClaudeAgent.ask *)

\* (variant: a conversation kept across calls)
QueryMessagesKept(history, question) ==
    IF history = {} THEN <<AgentMessage("user", question)>>
    ELSE <<AgentMessage("user", CHOOSE h \in history : TRUE),
           AgentMessage("user", question)>>

\* the message list of the fresh query: the question alone; the questions
\* of earlier calls (history) are not read
QueryMessages(history, question) == <<AgentMessage("user", question)>>

\* query = AgentQuery(messages=[AgentMessage(role="user", content=question)])
NewQuery(history, question) ==
    AgentQueryInit([messages |-> L(QueryMessages(history, question))]).v

\* names that are attributes of an AgentQuery object without being fields
\* (BaseModel.copy is a method)
NonFieldAttributes == {"copy"}

HasAttr(query, key) == key \in FieldNames \cup NonFieldAttributes

NoFieldMessage(key) == "\"AgentQuery\" object has no field \"" \o key \o "\""

\* BaseModel.__setattr__: a field takes the value as it is (no validation
\* on assignment); any other name is refused with ValueError
SetAttr(query, key, value) ==
    IF key \in FieldNames THEN Ok([query EXCEPT ![key] = value])
    ELSE Err(Exc("ValueError", NoFieldMessage(key)))

\* (variant: the override is looked up but never stored)
ApplyOverrideDropped(query, key, value) ==
    IF key \in FieldNames \/ key = "bogus_field" THEN Ok(query)
    ELSE Err(Exc("ValueError", NoFieldMessage(key)))

\* if hasattr(query, key): setattr(query, key, value)
ApplyOverride(query, key, value) ==
    IF HasAttr(query, key) THEN SetAttr(query, key, value) ELSE Ok(query)

\* [{"role": m.role, "content": m.content} for m in query.messages]
WireMessages(msgs) ==
    IF msgs.t # "list"
    THEN Err(Exc("TypeError", "'" \o msgs.t \o "' object is not iterable"))
    ELSE IF \E k \in 1..Len(msgs.items) : msgs.items[k].t # "AgentMessage"
    THEN LET k == CHOOSE j \in 1..Len(msgs.items) :
                    /\ msgs.items[j].t # "AgentMessage"
                    /\ \A h \in 1..(j-1) : msgs.items[h].t = "AgentMessage"
         IN Err(Exc("AttributeError",
                    "'" \o msgs.items[k].t \o "' object has no attribute 'role'"))
    ELSE Ok(L([k \in 1..Len(msgs.items) |->
                D([role |-> msgs.items[k].role,
                   content |-> msgs.items[k].content])]))

\* the keyword arguments of client.messages.create
Request(query) ==
    LET w == WireMessages(query.messages) IN
    IF ~w.ok THEN w
    ELSE Ok([model |-> query.model, max_tokens |-> query.max_tokens,
             temperature |-> query.temperature, messages |-> w.v])

\* Optional[dict]
ValidateOptionalDict(x) ==
    IF x.t \in {"dict", "NoneType"} THEN Ok(x) ELSE Err("dict_type")

\* AgentResponse(**kw): answer is a required string, raw_response an
\* optional dict defaulting to None
AgentResponseInit(kw) ==
    IF "answer" \notin DOMAIN kw THEN Err(ValidationError("AgentResponse"))
    ELSE IF ~ValidateStr(kw.answer).ok THEN Err(ValidationError("AgentResponse"))
    ELSE IF "raw_response" \in DOMAIN kw /\ ~ValidateOptionalDict(kw.raw_response).ok
    THEN Err(ValidationError("AgentResponse"))
    ELSE Ok([t |-> "AgentResponse", answer |-> kw.answer,
             raw_response |-> IF "raw_response" \in DOMAIN kw
                              THEN kw.raw_response ELSE None])

\* a reply of the service: a Message object holding text blocks
TextBlock(text) == [t |-> "TextBlock", type |-> "text", text |-> S(text)]
Message(texts) ==
    [t |-> "Message", role |-> "assistant",
     content |-> [k \in 1..Len(texts) |-> TextBlock(texts[k])]]

\* response.model_dump(): the object and its blocks as dicts
ModelDump(reply) ==
    D([role |-> S(reply.role),
       content |-> L([k \in 1..Len(reply.content) |->
                        D([type |-> S(reply.content[k].type),
                           text |-> reply.content[k].text])])])

\* (variant: response.content[-1].text)
LastText(reply) ==
    IF Len(reply.content) = 0
    THEN Err(Exc("IndexError", "list index out of range"))
    ELSE Ok(reply.content[Len(reply.content)].text)

\* response.content[0].text
FirstText(reply) ==
    IF Len(reply.content) = 0
    THEN Err(Exc("IndexError", "list index out of range"))
    ELSE Ok(reply.content[1].text)

\* the body of the try block once create() has returned or raised
TryBody(outcome) ==
    IF outcome.kind = "raise" THEN Err(outcome.exc)
    ELSE LET a == FirstText(outcome.reply) IN
         IF ~a.ok THEN a
         ELSE AgentResponseInit([answer |-> a.v,
                                 raw_response |-> ModelDump(outcome.reply)])

ExceptionClasses ==
    {"APIConnectionError", "AuthenticationError", "RateLimitError",
     "IndexError", "AttributeError", "TypeError", "ValueError",
     "ValidationError"}

\* (variant: `except anthropic.APIError`)
CaughtApiErrors(e) ==
    e.cls \in {"APIConnectionError", "AuthenticationError", "RateLimitError"}

\* `except Exception` takes every exception of the model
Caught(e) == e.cls \in ExceptionClasses

\* the except branch
ErrorResponse(e) ==
    AgentResponseInit([answer |-> S("Error: " \o Str(e)),
                       raw_response |-> D([error |-> S(Str(e))])]).v

\* the wrapper object once ask() has ended: ask assigns nothing to self
SelfAfterAsk(self, question) == self

---------------------------------------------------------------------------
(* Inputs of the wrapper *)

ArgInputs == {None, S(""), S("sk-ant-arg")}
\* the variable may be set by the process or by load_dotenv() from a .env file
EnvInputs == {None, S(""), S("sk-ant-env"), S("sk-ant-dotenv")}

MainQuestion == "What is the capital of Italy?"
Questions == {MainQuestion, "x"}

OverrideKeys == FieldNames \cup NonFieldAttributes \cup {"bogus_field"}

OverrideValues(key) ==
    CASE key = "temperature" -> {F(2), F(20)}
      [] key = "max_tokens" -> {I(500)}
      [] key = "model" -> {S("claude-3-haiku")}
      [] key = "messages" -> {L(<<AgentMessage("assistant", "hi")>>), L(<<GoodDict>>), None}
      [] OTHER -> {I(1)}

Texts == {"Rome", "Paris"}

\* the text sequences of at most n segments
RECURSIVE TextSeqs(_)
TextSeqs(n) ==
    IF n = 0 THEN {<<>>}
    ELSE LET shorter == TextSeqs(n - 1) IN
         shorter \cup {Append(q, x) : q \in {r \in shorter : Len(r) = n - 1}, x \in Texts}

RemoteErrors ==
    {Exc("APIConnectionError", "Connection error."),
     Exc("AuthenticationError", "invalid x-api-key"),
     Exc("RateLimitError", "rate_limit_error")}

\* what client.messages.create can do: return a reply or raise
RemoteOutcomes ==
    {[kind |-> "reply", reply |-> Message(q)] : q \in TextSeqs(MaxSegments)}
        \cup {[kind |-> "raise", exc |-> e] : e \in RemoteErrors}

NoOutcome == [kind |-> "none"]
NoCur == [t |-> "none"]
NoLast == [kind |-> "none"]

---------------------------------------------------------------------------
(* State machine of the wrapper *)

\* the record of an ask() that ended
\* (invocations: the create() invocations made since its entry)
Ended(kind, c, outcome, response, exc) ==
    [kind |-> kind, question |-> c.question, overrides |-> c.overrides,
     request |-> c.request, outcome |-> outcome, response |-> response,
     exc |-> exc, invocations |-> calls - c.calls0]

\* agent = ClaudeAgent(arg)
Construct(arg) ==
    /\ mpc = "off"
    /\ agent = NoAgent
    /\ LET r == AgentInit(arg, env) IN
       agent' = IF r.ok THEN r.v ELSE FailedAgent(r.e)
    /\ ctorArg' = arg
    /\ UNCHANGED <<env, asks, calls, apc, cur, last, earlier, mpc, output,
                   escaped, qin, qres>>

\* entry of ask(question, query_params): the fresh query
Begin(question) ==
    LET history == IF last = NoLast THEN earlier
                   ELSE earlier \cup {last.question}
    IN /\ agent.t = "ClaudeAgent"
       /\ apc = "idle"
       /\ asks < MaxAsks
       /\ asks' = asks + 1
       /\ cur' = [question |-> question, overrides |-> <<>>,
                  query |-> NewQuery(history, question), request |-> Absent,
                  calls0 |-> calls]
       /\ earlier' = history
       /\ last' = NoLast
       /\ apc' = "overrides"

\* a caller of the wrapper calls ask
AskBegin(question) ==
    /\ mpc = "off"
    /\ Begin(question)
    /\ UNCHANGED <<env, ctorArg, agent, calls, mpc, output, escaped, qin, qres>>

\* one turn of `for key, value in query_params.items()`
AskOverride(key, value) ==
    /\ mpc = "off"
    /\ apc = "overrides"
    /\ Len(cur.overrides) < MaxOverrides
    /\ \A k \in 1..Len(cur.overrides) : cur.overrides[k].key # key
    /\ LET r == ApplyOverride(cur.query, key, value)
           c == [cur EXCEPT !.overrides = Append(@, [key |-> key, value |-> value])]
       IN IF r.ok
          THEN /\ cur' = [c EXCEPT !.query = r.v]
               /\ UNCHANGED <<apc, last, agent>>
          ELSE \* setattr raised outside the try block: ask raises
               /\ cur' = NoCur
               /\ apc' = "idle"
               /\ last' = Ended("raise", c, NoOutcome, Absent, r.e)
               /\ agent' = SelfAfterAsk(agent, c.question)
    /\ UNCHANGED <<env, ctorArg, asks, calls, earlier, mpc, output, escaped,
                   qin, qres>>

\* query_params is None or empty, or its items are exhausted
AskOverridesDone ==
    /\ apc = "overrides"
    /\ apc' = "call"
    /\ UNCHANGED <<env, ctorArg, agent, asks, calls, cur, last, earlier, mpc,
                   output, escaped, qin, qres>>

\* the try block up to the invocation of client.messages.create: its
\* arguments are evaluated first, and an exception in them is caught
AskSend ==
    /\ apc = "call"
    /\ LET r == Request(cur.query) IN
       IF r.ok
       THEN /\ cur' = [cur EXCEPT !.request = r.v]
            /\ calls' = calls + 1
            /\ apc' = "awaiting"
            /\ UNCHANGED <<last, agent>>
       ELSE /\ cur' = NoCur
            /\ apc' = "idle"
            /\ last' = IF Caught(r.e)
                       THEN Ended("return", cur, NoOutcome, ErrorResponse(r.e), Absent)
                       ELSE Ended("raise", cur, NoOutcome, Absent, r.e)
            /\ agent' = SelfAfterAsk(agent, cur.question)
            /\ UNCHANGED calls
    /\ UNCHANGED <<env, ctorArg, asks, earlier, mpc, output, escaped, qin, qres>>

\* create() returns or raises; the rest of the try block and the except
AskReceive(outcome) ==
    /\ apc = "awaiting"
    /\ LET r == TryBody(outcome) IN
       last' = IF r.ok THEN Ended("return", cur, outcome, r.v, Absent)
               ELSE IF Caught(r.e)
               THEN Ended("return", cur, outcome, ErrorResponse(r.e), Absent)
               ELSE Ended("raise", cur, outcome, Absent, r.e)
    /\ cur' = NoCur
    /\ apc' = "idle"
    /\ agent' = SelfAfterAsk(agent, cur.question)
    /\ UNCHANGED <<env, ctorArg, asks, calls, earlier, mpc, output, escaped,
                   qin, qres>>

---------------------------------------------------------------------------
(* main() *)

SeparatorWidth == 50

\* s * n
RECURSIVE Repeat(_, _)
Repeat(s, n) == IF n <= 0 THEN "" ELSE s \o Repeat(s, n - 1)

Separator == Repeat("-", SeparatorWidth)

\* (variant: `except Exception: pass`)
MainHandlerSilent(out, e) == out

\* print(f"An error occurred: {str(e)}") in the except branch of main
MainHandler(out, e) == Append(out, "An error occurred: " \o Str(e))

\* agent = ClaudeAgent()
MainConstruct ==
    /\ mpc = "start"
    /\ ctorArg' = None
    /\ LET r == AgentInit(None, env) IN
       IF r.ok
       THEN /\ agent' = r.v
            /\ mpc' = "print_question"
            /\ UNCHANGED <<output, escaped>>
       ELSE /\ agent' = FailedAgent(r.e)
            /\ mpc' = "exit"
            /\ IF Caught(r.e)
               THEN output' = MainHandler(output, r.e) /\ UNCHANGED escaped
               ELSE escaped' = TRUE /\ UNCHANGED output
    /\ UNCHANGED <<env, asks, calls, apc, cur, last, earlier, qin, qres>>

\* print(f"Asking Claude: {question}")
MainPrintQuestion ==
    /\ mpc = "print_question"
    /\ output' = Append(output, "Asking Claude: " \o MainQuestion)
    /\ mpc' = "ask"
    /\ UNCHANGED <<env, ctorArg, agent, asks, calls, apc, cur, last, earlier,
                   escaped, qin, qres>>

\* response = agent.ask(question): the call
MainAsk ==
    /\ mpc = "ask"
    /\ Begin(MainQuestion)
    /\ mpc' = "in_ask"
    /\ UNCHANGED <<env, ctorArg, agent, calls, output, escaped, qin, qres>>

\* ask has ended: print("\nClaude's response:"), or the except branch when
\* ask raised
MainPrintHeader ==
    /\ mpc = "in_ask"
    /\ apc = "idle"
    /\ IF last.kind = "return"
       THEN /\ output' = output \o <<"", "Claude's response:">>
            /\ mpc' = "print_separator"
            /\ UNCHANGED escaped
       ELSE /\ mpc' = "exit"
            /\ IF Caught(last.exc)
               THEN output' = MainHandler(output, last.exc) /\ UNCHANGED escaped
               ELSE escaped' = TRUE /\ UNCHANGED output
    /\ UNCHANGED <<env, ctorArg, agent, asks, calls, apc, cur, last, earlier,
                   qin, qres>>

\* print("-" * 50)
MainPrintSeparator ==
    /\ mpc = "print_separator"
    /\ output' = Append(output, Separator)
    /\ mpc' = "print_answer"
    /\ UNCHANGED <<env, ctorArg, agent, asks, calls, apc, cur, last, earlier,
                   escaped, qin, qres>>

\* print(response.answer)
MainPrintAnswer ==
    /\ mpc = "print_answer"
    /\ output' = Append(output, last.response.answer.s)
    /\ mpc' = "print_last_separator"
    /\ UNCHANGED <<env, ctorArg, agent, asks, calls, apc, cur, last, earlier,
                   escaped, qin, qres>>

\* print("-" * 50), and main returns
MainPrintLastSeparator ==
    /\ mpc = "print_last_separator"
    /\ output' = Append(output, Separator)
    /\ mpc' = "exit"
    /\ UNCHANGED <<env, ctorArg, agent, asks, calls, apc, cur, last, earlier,
                   escaped, qin, qres>>

---------------------------------------------------------------------------
(* Construction of a query on its own *)

\* AgentQuery(**kw)
ConstructQuery(kw) ==
    /\ qin = Absent
    /\ qin' = D(kw)
    /\ qres' = AgentQueryInit(kw)
    /\ UNCHANGED <<env, ctorArg, agent, asks, calls, apc, cur, last, earlier,
                   mpc, output, escaped>>

---------------------------------------------------------------------------
(* Specifications *)

Init ==
    /\ env \in EnvInputs
    /\ ctorArg = Absent
    /\ agent = NoAgent
    /\ asks = 0
    /\ calls = 0
    /\ apc = "idle"
    /\ cur = NoCur
    /\ last = NoLast
    /\ earlier = {}
    /\ mpc = "off"
    /\ output = <<>>
    /\ escaped = FALSE
    /\ qin = Absent
    /\ qres = Absent

Next ==
    \/ \E arg \in ArgInputs : Construct(arg)
    \/ \E q \in Questions : AskBegin(q)
    \/ \E key \in OverrideKeys : \E value \in OverrideValues(key) : AskOverride(key, value)
    \/ AskOverridesDone
    \/ AskSend
    \/ \E outcome \in RemoteOutcomes : AskReceive(outcome)

Spec == Init /\ [][Next]_vars

\* one run of the entry point
InitMain ==
    /\ env \in EnvInputs
    /\ ctorArg = Absent
    /\ agent = NoAgent
    /\ asks = 0
    /\ calls = 0
    /\ apc = "idle"
    /\ cur = NoCur
    /\ last = NoLast
    /\ earlier = {}
    /\ mpc = "start"
    /\ output = <<>>
    /\ escaped = FALSE
    /\ qin = Absent
    /\ qres = Absent

NextMain ==
    \/ MainConstruct
    \/ MainPrintQuestion
    \/ MainAsk
    \/ AskOverridesDone
    \/ AskSend
    \/ \E outcome \in RemoteOutcomes : AskReceive(outcome)
    \/ MainPrintHeader
    \/ MainPrintSeparator
    \/ MainPrintAnswer
    \/ MainPrintLastSeparator

SpecMain == InitMain /\ [][NextMain]_vars

\* constructions of AgentQuery from keyword arguments
NextQuery ==
    \E m \in MessagesInputs, mo \in ModelInputs, mt \in MaxTokensInputs,
       te \in TemperatureInputs : ConstructQuery(Kwargs(m, mo, mt, te))

SpecQuery == Init /\ [][NextQuery]_vars

---------------------------------------------------------------------------
(* Properties.  Their expected values are written out here from the        *)
(* source text, not through the operators of the model.                    *)

\* an ask() has ended
AskEnded == last.kind # "none"

\* create() was invoked and raised, or returned a reply without content
RemoteFailed ==
    /\ AskEnded
    /\ \/ last.outcome.kind = "raise"
       \/ last.outcome.kind = "reply" /\ Len(last.outcome.reply.content) = 0

\* str(e) of that failure
FailureText ==
    IF last.outcome.kind = "raise" THEN last.outcome.exc.msg
    ELSE "list index out of range"

\* create() returned a reply with at least one content segment
RemoteReplied ==
    /\ AskEnded
    /\ last.outcome.kind = "reply"
    /\ Len(last.outcome.reply.content) >= 1

\* whether the overrides seen so far hold `key`, and the value they give it
Given(ovs, key) == \E k \in 1..Len(ovs) : ovs[k].key = key
ValueOf(ovs, key) == ovs[CHOOSE k \in 1..Len(ovs) : ovs[k].key = key].value

\* C1: whenever the remote call inside ask fails (create raises a
\* connection, authentication or rate-limit error, or the reply has an empty
\* content list), ask raises nothing and returns a Response whose answer is
\* "Error: " followed by the stringified failure and whose raw_response is
\* exactly {"error": <the same stringified failure>}.
C1_FailureBecomesAnswer ==
    RemoteFailed =>
        /\ last.kind = "return"
        /\ last.exc = Absent
        /\ last.response.t = "AgentResponse"
        /\ last.response.answer = S("Error: " \o FailureText)
        /\ last.response.raw_response = D([error |-> S(FailureText)])

C1_Witness ==
    /\ RemoteFailed
    /\ last.outcome.kind = "reply"
    /\ last.response.answer = S("Error: list index out of range")

\* C2: every ask that returns a Response has invoked the remote service
\* exactly once, never zero times and never more than once.
C2_ExactlyOneInvocation ==
    (AskEnded /\ last.kind = "return") => last.invocations = 1

\* C3: no outgoing remote request carries a temperature outside [0,1]: an
\* override that violates the constraint of the field fails before the call.
C3_RequestTemperatureInRange ==
    apc = "awaiting" =>
        /\ cur.request.temperature.t = "float"
        /\ cur.request.temperature.tenths >= 0
        /\ cur.request.temperature.tenths <= 10

\* C4: an override key that is not one of the four fields of the query is
\* ignored without any error: an ask given such a key does not raise.
C4_NonFieldKeyIgnored ==
    (AskEnded /\ \E k \in 1..Len(last.overrides) :
                    last.overrides[k].key \notin
                        {"messages", "model", "max_tokens", "temperature"})
        => last.kind = "return"

\* a list of AgentMessage objects
IsMessageList(x) ==
    x.t = "list" /\ \A k \in 1..Len(x.items) : x.items[k].t = "AgentMessage"

\* the wire shape of a list of AgentMessage objects
WireOf(list) ==
    [t |-> "list",
     items |-> [k \in 1..Len(list.items) |->
                 [t |-> "dict",
                  d |-> [role |-> list.items[k].role,
                         content |-> list.items[k].content]]]]

\* C5: the outgoing request carries, for every field an override names, the
\* overridden value, and for every other field the default: one message
\* {role: "user", content: question}, the default model, max_tokens 1000 and
\* temperature 0.7.
C5_RequestIsDefaultsPlusOverrides ==
    apc = "awaiting" =>
        LET r == cur.request
            o == cur.overrides
        IN /\ r.model = IF Given(o, "model") THEN ValueOf(o, "model")
                        ELSE [t |-> "str", s |-> "claude-3-7-sonnet-20250219"]
           /\ r.max_tokens = IF Given(o, "max_tokens") THEN ValueOf(o, "max_tokens")
                             ELSE [t |-> "int", i |-> 1000]
           /\ r.temperature = IF Given(o, "temperature") THEN ValueOf(o, "temperature")
                              ELSE [t |-> "float", tenths |-> 7]
           /\ Given(o, "messages") =>
                 /\ IsMessageList(ValueOf(o, "messages"))
                 /\ r.messages = WireOf(ValueOf(o, "messages"))
           /\ ~Given(o, "messages") =>
                 r.messages = [t |-> "list",
                               items |-> <<[t |-> "dict",
                                            d |-> [role |-> S("user"),
                                                   content |-> S(cur.question)]]>>]

C5_Witness ==
    /\ apc = "awaiting"
    /\ cur.overrides = <<[key |-> "temperature", value |-> F(2)]>>
    /\ cur.request.temperature = F(2)
    /\ cur.request.max_tokens = I(1000)

\* a credential source that yields a non-empty value
NonEmpty(x) == x.t = "str" /\ x.s # ""

\* C6: construction fails with the configuration error exactly when neither
\* the argument nor the environment variable yields a non-empty credential;
\* otherwise the wrapper holds the argument when it yields one and the
\* environment value only when it does not; no remote call is made by it.
C6_ConstructionContract ==
    agent # NoAgent =>
        /\ agent.t = "failed" <=> (~NonEmpty(ctorArg) /\ ~NonEmpty(env))
        /\ agent.t = "failed" => agent.exc.cls = "ValueError"
        /\ agent.t = "ClaudeAgent" =>
              /\ agent.api_key = IF NonEmpty(ctorArg) THEN ctorArg ELSE env
              /\ agent.client = [t |-> "Anthropic", api_key |-> agent.api_key]
        /\ asks = 0 => calls = 0

C6_Witness ==
    /\ agent.t = "ClaudeAgent"
    /\ ctorArg = S("sk-ant-arg")
    /\ env = S("sk-ant-env")
    /\ agent.api_key = S("sk-ant-arg")
    /\ calls = 0

\* the arguments of the construction of a query
Arg(name) == IF name \in DOMAIN qin.d THEN qin.d[name] ELSE Absent

\* a temperature argument that is a number outside [0,1]
TemperatureOutside(x) ==
    \/ x.t = "float" /\ (x.tenths < 0 \/ x.tenths > 10)
    \/ x.t = "int" /\ (x.i < 0 \/ x.i > 1)

\* a temperature argument that is a number inside [0,1], or none (default)
TemperatureInside(x) ==
    \/ x = Absent
    \/ x.t = "float" /\ x.tenths >= 0 /\ x.tenths <= 10
    \/ x.t = "int" /\ x.i \in {0, 1}

\* a message: an AgentMessage, or a dict with a string role and content
ValidMessage(x) ==
    \/ x.t = "AgentMessage"
    \/ /\ x.t = "dict"
       /\ {"role", "content"} \subseteq DOMAIN x.d
       /\ x.d.role.t = "str"
       /\ x.d.content.t = "str"

HasInvalidMessage(x) ==
    x.t = "list" /\ \E k \in 1..Len(x.items) : ~ValidMessage(x.items[k])

ValidMessages(x) ==
    \/ x = Absent
    \/ x.t = "list" /\ \A k \in 1..Len(x.items) : ValidMessage(x.items[k])

C8_FirstSegmentIsAnswer ==
    /\ RemoteReplied =>
          LET c == last.outcome.reply.content IN
          /\ last.kind = "return"
          /\ last.response.answer = c[1].text
          /\ last.response.raw_response =
                [t |-> "dict",
                 d |-> [role |-> S("assistant"),
                        content |->
                          [t |-> "list",
                           items |-> [k \in 1..Len(c) |->
                                       [t |-> "dict",
                                        d |-> [type |-> S("text"),
                                               text |-> c[k].text]]]]]]
    /\ (AskEnded /\ last.kind = "return" /\ ~RemoteReplied) =>
          DOMAIN last.response.raw_response.d = {"error"}

C8_Witness ==
    /\ RemoteReplied
    /\ Len(last.outcome.reply.content) = 2
    /\ last.outcome.reply.content[2].text = S("Paris")
    /\ last.response.answer = S("Rome")

FiftyDashes == "--------------------------------------------------"

\* C9 (as amended): every run of main ends normally.  When the construction
\* of the wrapper fails, no remote call is made and the only output is the
\* line "An error occurred: <message>".  Otherwise the output is, in this
\* order, "Asking Claude: <question>", AN EMPTY LINE, THE LINE "Claude's
\* response:", a line of 50 dashes, the answer and a line of 50 dashes, and
\* the answer is printed only after the remote call has returned or failed.
C9_MainOutput ==
    /\ ~escaped
    /\ mpc # "exit" => ENABLED NextMain
    /\ (mpc = "exit" /\ agent.t = "failed") =>
          /\ calls = 0
          /\ output = <<"An error occurred: ANTHROPIC_API_KEY must be provided either as an argument or as an environment variable">>
    /\ (mpc = "exit" /\ agent.t # "failed") =>
          /\ agent.t = "ClaudeAgent"
          /\ calls = 1
          /\ output = <<"Asking Claude: What is the capital of Italy?", "",
                        "Claude's response:", FiftyDashes,
                        last.response.answer.s, FiftyDashes>>
    /\ Len(output) >= 2 =>
          /\ apc = "idle" /\ last.kind = "return" /\ last.invocations = 1
          /\ last.outcome.kind \in {"reply", "raise"}

C9_Witness ==
    /\ mpc = "exit"
    /\ agent.t = "ClaudeAgent"
    /\ last.outcome.kind = "raise"
    /\ output[5] = "Error: Connection error."
    /\ Len(output) = 6

\* C9 as stated: after a successful construction the output is the four
\* lines question, dashes, answer, dashes.
C9_Original ==
    (mpc = "exit" /\ agent.t = "ClaudeAgent") =>
        output = <<"Asking Claude: What is the capital of Italy?", FiftyDashes,
                   last.response.answer.s, FiftyDashes>>

\* the messages a request may carry: the question of its own call as a user
\* message, or the messages its own override gives
OwnMessage(m) ==
    \/ m = [t |-> "dict", d |-> [role |-> S("user"), content |-> S(cur.question)]]
    \/ /\ Given(cur.overrides, "messages")
       /\ IsMessageList(ValueOf(cur.overrides, "messages"))
       /\ \E k \in 1..Len(ValueOf(cur.overrides, "messages").items) :
            LET x == ValueOf(cur.overrides, "messages").items[k] IN
            m = [t |-> "dict", d |-> [role |-> x.role, content |-> x.content]]

\* the value a request may carry in a field: the default or its own override
OwnValue(key, default, v) ==
    \/ v = default
    \/ Given(cur.overrides, key) /\ v = ValueOf(cur.overrides, key)

RequestIsOwn ==
    apc = "awaiting" =>
        /\ \A k \in 1..Len(cur.request.messages.items) :
              OwnMessage(cur.request.messages.items[k])
        /\ ~Given(cur.overrides, "messages") => Len(cur.request.messages.items) = 1
        /\ OwnValue("model", S("claude-3-7-sonnet-20250219"), cur.request.model)
        /\ OwnValue("max_tokens", I(1000), cur.request.max_tokens)
        /\ OwnValue("temperature", F(7), cur.request.temperature)

\* C10: across any sequence of ask calls the credential and the client
\* handle of the wrapper stay what construction made them, and a request
\* carries nothing but what its own call was given (its question, its
\* overrides) and the defaults: nothing of an earlier call.
C10_NoStateAcrossCalls ==
    /\ [](RequestIsOwn)
    /\ [][agent.t = "ClaudeAgent" => agent' = agent]_vars

C10_Witness ==
    /\ asks = 2
    /\ apc = "awaiting"
    /\ earlier = {"x"}
    /\ cur.question = MainQuestion
    /\ agent.api_key = S("sk-ant-env")

====
